---- MODULE Spec2Model ----
(***************************************************************************)
(* Task persistence and caching layer of the task bot (src/db_connect.py). *)
(*                                                                         *)
(* The PostgreSQL table `tasks` is the variable rows, the Redis key space  *)
(* is the variable cache.  The bot dispatches every inbound message to a   *)
(* worker thread, so the operations of db_connect.py run as the processes  *)
(* Procs and interleave at their store and cache calls.  A transaction's   *)
(* writes become visible at its commit (READ COMMITTED): an action that    *)
(* writes rows models the statement(s) together with the commit.  A read   *)
(* that precedes a write in the same function (SELECT MAX, SELECT COUNT)   *)
(* is a step of its own, and so is every Redis call.  The add dialog and   *)
(* the replies of the handlers (src/bot_functions.py) and the start of the *)
(* process (__main__, init_db) are modelled by the actions after them.     *)
(***************************************************************************)
EXTENDS Integers, Sequences, FiniteSets, TLC

\* ------------------------------------------------------------------ bounds

\* Number of INSERT transactions that may begin in one behaviour.
MaxAdds == 2

\* Worker threads handling messages, chat users, task texts.
Procs == {"p1", "p2"}
Rank == [p \in Procs |-> IF p = "p1" THEN 1 ELSE 2]
Users == {1, 2}
Texts == {"a"}

\* message.text.strip() of an inbound text message: it can be empty.
Inbound == {"", "a"}

\* Positions a caller may pass to /done and /delete.
Positions == 1..MaxAdds

VARIABLES
    rows,     \* committed rows of table tasks
    nextId,   \* next value of the SERIAL column id
    now,      \* the store's clock, read by NOW() when a transaction begins
    cache,    \* Redis: key -> value
    pc,       \* per worker: the place it is at in the operation it runs
    op,       \* per worker: the call it runs, with the call's locals
    ret,      \* per worker: what the call returned
    fresh,    \* history: per key, the entry's rows were read after the key's last delete
    user_state, \* per chat user: the stage of the add dialog, "none" when absent
    boot,     \* where __main__ is: "main" before init_db, "polling" after
    schema,   \* table tasks exists in the store
    last      \* history: the call that returned last, where it is recorded

vars == <<rows, nextId, now, cache, pc, op, ret, fresh, user_state, boot, schema, last>>

\* ------------------------------------------------------------ Redis values

cache_key(user_id) == <<"tasks:", user_id>>

Keys == {cache_key(u) : u \in Users}

\* redis_client.get of a missing key
CacheNone == [kind |-> "nil", tasks |-> <<>>]
\* a value json.loads rejects
CacheCorrupt == [kind |-> "corrupt", tasks |-> <<>>]

\* json.dumps(tasks): the list as one string value
json_dumps(tasks) == [kind |-> "json", tasks |-> tasks]

\* json.loads taking every stored value for a list.
DecodesAnything(cached) == cached.kind # "nil"

\* json.loads(cached) raises no JSONDecodeError
Decodes(cached) == cached.kind = "json"

\* json.loads(cached): the list back; only called on values it decodes
json_loads(cached) == cached.tasks

\* datetime.isoformat(): the timestamp as a string
isoformat(ts) == <<"iso", ts>>

\* ------------------------------------------------------------------- SQL

UserRows(rs, user_id) == {r \in rs : r.user_id = user_id}

Matching(rs, user_id, k) ==
    {r \in rs : r.user_id = user_id /\ r.task_id_in_list = k}

\* The rowcount of an UPDATE restricted by AND done = FALSE.
RowCountPending(rs, user_id, k) ==
    Cardinality({r \in Matching(rs, user_id, k) : ~r.done})

\* A rowcount that the caller never finds to be 0.
RowCountUnchecked(rs, user_id, k) == 1

\* cur.rowcount after the UPDATE / DELETE ... WHERE user_id = %s AND task_id_in_list = %s
RowCount(rs, user_id, k) == Cardinality(Matching(rs, user_id, k))

SetMax(S) == CHOOSE x \in S : \A y \in S : y <= x

\* SELECT MAX(task_id_in_list) FROM tasks WHERE user_id = %s : <<>> is NULL
SelectMax(rs, user_id) ==
    IF UserRows(rs, user_id) = {} THEN <<>>
    ELSE <<SetMax({r.task_id_in_list : r \in UserRows(rs, user_id)})>>

\* new_id = (max_id or 0) + 1
NewId(max_id) == (IF max_id = <<>> THEN 0 ELSE max_id[1]) + 1

\* INSERT INTO tasks (user_id, text, task_id_in_list): done and created_at default
InsertRow(rs, id, user_id, text, created_at, new_id) ==
    rs \cup {[id |-> id, user_id |-> user_id, text |-> text, done |-> FALSE,
              created_at |-> created_at, task_id_in_list |-> new_id]}

\* An UPDATE that flips done instead of setting it.
UpdateToggles(rs, user_id, k) ==
    {IF r \in Matching(rs, user_id, k) THEN [r EXCEPT !.done = ~r.done] ELSE r : r \in rs}

\* UPDATE tasks SET done = TRUE WHERE user_id = %s AND task_id_in_list = %s
UpdateDone(rs, user_id, k) ==
    {IF r \in Matching(rs, user_id, k) THEN [r EXCEPT !.done = TRUE] ELSE r : r \in rs}

\* DELETE FROM tasks WHERE user_id = %s AND task_id_in_list = %s
DeleteRow(rs, user_id, k) == rs \ Matching(rs, user_id, k)

\* ROW_NUMBER() OVER (ORDER BY created_at) within WHERE user_id = %s
RowNumber(rs, user_id, r) ==
    1 + Cardinality({s \in UserRows(rs, user_id) :
                        \/ s.created_at < r.created_at
                        \/ s.created_at = r.created_at /\ s.id < r.id})

\* UPDATE tasks SET task_id_in_list = subquery.new_id FROM (...) WHERE tasks.id = subquery.id
Renumber(rs, user_id) ==
    {IF r.user_id = user_id
        THEN [r EXCEPT !.task_id_in_list = RowNumber(rs, user_id, r)]
        ELSE r : r \in rs}

\* SELECT COUNT(*) FROM tasks WHERE user_id = %s
CountAll(rs, user_id) == Cardinality(UserRows(rs, user_id))

\* The COUNT without its AND done = FALSE.
CountDoneToo(rs, user_id) == Cardinality(UserRows(rs, user_id))

\* SELECT COUNT(*) FROM tasks WHERE user_id = %s AND done = FALSE
CountPending(rs, user_id) == Cardinality({r \in UserRows(rs, user_id) : ~r.done})

\* DELETE FROM tasks WHERE user_id = %s
DeleteAll(rs, user_id) == rs \ UserRows(rs, user_id)

\* The UPDATE without its WHERE user_id = %s.
DoneAllEveryOwner(rs, user_id) == {[r EXCEPT !.done = TRUE] : r \in rs}

\* UPDATE tasks SET done = TRUE WHERE user_id = %s
DoneAll(rs, user_id) ==
    {IF r.user_id = user_id THEN [r EXCEPT !.done = TRUE] ELSE r : r \in rs}

\* dict(row) with created_at replaced by its isoformat()
TaskDict(r) ==
    [id |-> r.id, text |-> r.text, done |-> r.done,
     created_at |-> isoformat(r.created_at), task_id_in_list |-> r.task_id_in_list]

\* SELECT id, text, done, created_at, task_id_in_list ... ORDER BY task_id_in_list:
\* every order of the owner's rows that ascends in task_id_in_list (rows with
\* the same task_id_in_list come in an order the store chooses).
SelectOrdered(rs, user_id) ==
    LET S == UserRows(rs, user_id)
        n == Cardinality(S)
    IN  {[i \in 1..n |-> TaskDict(f[i])] :
            f \in {g \in [1..n -> S] :
                    /\ \A i, j \in 1..n : i # j => g[i] # g[j]
                    /\ \A i, j \in 1..n :
                          i < j => g[i].task_id_in_list <= g[j].task_id_in_list}}

\* -------------------------------------------------------- calls and results

\* A worker that runs no call.
NoOp ==
    [name |-> "none", user_id |-> 0, text |-> "", pos |-> 0, new_id |-> 0,
     created_at |-> 0, count |-> 0, tasks |-> <<>>,
     message |-> "",       \* add_task: the text of the message it handles
     conn |-> FALSE,       \* conn is a connection that is open
     committed |-> FALSE,  \* history: the call's transaction was committed
     err |-> "none",       \* history: "store" / "cache" when such a call raised
     deleted |-> {},       \* ids of the rows this call's open transaction deleted
     stale |-> FALSE,      \* history: the key was deleted after this call's SELECT
     undecodable |-> FALSE, \* history: the entry the call wrote over was one
                           \*   json.loads rejects
     raced |-> FALSE]      \* history: another insert for the owner was between
                           \*   its SELECT MAX and its INSERT when this one was

Call(name, user_id) == [NoOp EXCEPT !.name = name, !.user_id = user_id]

NoRet == [tag |-> "-", n |-> 0, b |-> FALSE, tasks |-> <<>>]
PyNone == [NoRet EXCEPT !.tag = "None"]
PyInt(n) == [NoRet EXCEPT !.tag = "int", !.n = n]
PyBool(b) == [NoRet EXCEPT !.tag = "bool", !.b = b]
PyPair(b, n) == [NoRet EXCEPT !.tag = "pair", !.b = b, !.n = n]
PyList(tasks) == [NoRet EXCEPT !.tag = "list", !.tasks = tasks]
\* the call ended by an exception that left the function
Raised == [NoRet EXCEPT !.tag = "raised"]

\* conn = get_db_conn() returned a connection
Connected(o) == [o EXCEPT !.conn = TRUE]

\* The locals of a call that failed in the store: get_db_conn returned None,
\* or a statement raised on the connection it returned.
Failed(o) == {[o EXCEPT !.err = "store"], Connected([o EXCEPT !.err = "store"])}

\* A finally branch that leaves the connection as it is.
conn_kept(conn) == conn

\* conn.close()
conn_close(conn) == FALSE

\* finally: if conn: conn.close()
Finally(o) == [o EXCEPT !.conn = IF o.conn THEN conn_close(o.conn) ELSE o.conn]

Mutators ==
    {"save_task_to_db", "mark_done_in_db", "delete_task_from_db",
     "clear_all_tasks_db", "done_all_tasks_db"}

\* The functions without their `except Exception`: the exception leaves them.
FailurePropagates(name) == Raised

\* What each function returns from its `except Exception` / `if not conn` branch.
FailureValue(name) ==
    CASE name = "save_task_to_db" -> PyNone
      [] name \in {"mark_done_in_db", "delete_task_from_db"} -> PyBool(FALSE)
      [] name \in {"clear_all_tasks_db", "done_all_tasks_db"} -> PyPair(FALSE, 0)
      [] OTHER -> PyList(<<>>)

\* What each mutating function returns after commit and invalidate_cache.
SuccessValue(o) ==
    CASE o.name = "save_task_to_db" -> PyInt(o.new_id)
      [] o.name \in {"mark_done_in_db", "delete_task_from_db"} -> PyBool(TRUE)
      [] OTHER -> PyPair(TRUE, o.count)

\* invalidate_cache without its try/except: a failed delete raises.
invalidate_cache_unguarded(up) == [deleted |-> up, raised |-> ~up]

\* invalidate_cache(user_id): redis_client.delete inside try/except Exception;
\* deleted: the key was removed, raised: an exception left the function.
invalidate_cache(up) == [deleted |-> up, raised |-> FALSE]

\* Outcomes of get_db_conn and of a statement on table tasks: TRUE when both
\* succeed.  Without the table every statement raises.
StoreOk == IF schema THEN BOOLEAN ELSE {FALSE}

\* ----------------------------------------------------------- transactions

\* Every statement takes effect at once, as on a connection in autocommit.
Autocommit(committed, written) == written

\* `with conn:` -- the rows the other connections read while a transaction
\* that has `written` is open: the committed ones, until conn.commit().
InTransaction(committed, written) == committed

\* Ids of the rows that the open transactions of the other workers deleted
\* and so hold locked until they commit or roll back.
Locked(p) ==
    UNION {op[q].deleted : q \in {w \in Procs \ {p} : pc[w] = "delete_renumber"}}

\* An UPDATE or DELETE of the rows rs by worker p does not wait for a lock.
Unlocked(p, rs) == {r.id : r \in rs} \cap Locked(p) = {}

\* user_id not in user_state
Absent == [stage |-> "none", surname |-> "", task_text |-> ""]

\* No call has returned yet, or the calls are not recorded.
NoLast == [name |-> "none", user_id |-> 0, pos |-> 0, ok |-> FALSE]

\* ------------------------------------------------------------------- Init

Init ==
    /\ rows = {}
    /\ nextId = 1
    /\ now = 0
    /\ cache = [k \in Keys |-> CacheNone]
    /\ pc = [p \in Procs |-> "idle"]
    /\ op = [p \in Procs |-> NoOp]
    /\ ret = [p \in Procs |-> NoRet]
    /\ fresh = [k \in Keys |-> TRUE]
    /\ user_state = [u \in Users |-> Absent]
    /\ boot = "polling"
    /\ schema = TRUE
    /\ last = NoLast

\* No worker is between the return of its call and the handler's reply.  The
\* reply changes nothing the other workers read, so it is taken at once.
Quiet == \A q \in Procs : pc[q] # "ret"

\* The pool hands the next message to its first idle worker.
Free(p) ==
    /\ boot = "polling"
    /\ pc[p] = "idle"
    /\ Quiet
    /\ \A q \in Procs : pc[q] = "idle" => Rank[p] <= Rank[q]

\* The call of worker p returns r, its locals being o, through its finally.
Return(p, o, r) ==
    /\ pc' = [pc EXCEPT ![p] = "ret"]
    /\ op' = [op EXCEPT ![p] = Finally(o)]
    /\ ret' = [ret EXCEPT ![p] = r]

\* The call of worker p goes on at place l, its locals being o.
Goto(p, o, l) ==
    /\ pc' = [pc EXCEPT ![p] = l]
    /\ op' = [op EXCEPT ![p] = o]
    /\ ret' = ret

\* ------------------------------------------------------- get_user_tasks

\* A failed read that goes on to redis_client.set with an empty list.
LoadFailsThenSets(p, o) ==
    Goto(p, Connected([o EXCEPT !.err = "store"]), "load_set")

\* load_tasks_from_db whose get_db_conn returned None or whose SELECT raised:
\* `return []`, before or instead of the redis_client.set.
LoadFails(p, o) == \E f \in Failed(o) : Return(p, f, PyList(<<>>))

\* get_user_tasks up to the SELECT of load_tasks_from_db: redis_client.get is
\* outside any try; a decodable value is returned; a missing or undecodable
\* one falls through to load_tasks_from_db, whose get_db_conn and SELECT
\* return [] when they fail.  (The SELECT reads no Redis state and
\* redis_client.get no row, so the two are taken as one step.)
GetUserTasks(p, user_id) ==
    /\ Free(p)
    /\ LET o == Call("get_user_tasks", user_id)
           cached == cache[cache_key(user_id)]
       IN  \E up \in BOOLEAN :
              IF ~up
                THEN Return(p, [o EXCEPT !.err = "cache"], Raised)
                ELSE IF cached # CacheNone /\ Decodes(cached)
                       THEN Return(p, o, PyList(json_loads(cached)))
                       ELSE \E ok \in StoreOk :
                               IF ok
                                 THEN \E tasks \in SelectOrdered(rows, user_id) :
                                         Goto(p, Connected([o EXCEPT !.tasks = tasks]),
                                              "load_set")
                                 ELSE LoadFails(p, o)
    /\ UNCHANGED <<rows, nextId, now, cache, fresh, user_state, boot, schema, last>>

\* load_tasks_from_db: redis_client.set(cache_key(user_id), json.dumps(tasks))
\* inside the try; when it raises the except branch returns [].
LoadSet(p) ==
    /\ pc[p] = "load_set"
    /\ Quiet
    /\ LET k == cache_key(op[p].user_id)
       IN  \E up \in BOOLEAN :
              IF up
                THEN /\ cache' = [cache EXCEPT ![k] = json_dumps(op[p].tasks)]
                     /\ fresh' = [fresh EXCEPT ![k] = ~op[p].stale]
                     /\ Return(p, [op[p] EXCEPT !.tasks = <<>>, !.stale = FALSE,
                                                !.undecodable = (cache[k] = CacheCorrupt)],
                               PyList(op[p].tasks))
                ELSE /\ UNCHANGED <<cache, fresh>>
                     /\ Return(p, [op[p] EXCEPT !.tasks = <<>>, !.stale = FALSE,
                                                !.err = "cache"],
                               PyList(<<>>))
    /\ UNCHANGED <<rows, nextId, now, user_state, boot, schema, last>>

\* ------------------------------------------------------ save_task_to_db

\* get_db_conn, BEGIN and SELECT MAX(task_id_in_list); new_id = (max_id or 0) + 1.
\* NOW() of the later INSERT is the time the transaction began.
\* The caller's locals so far are c.
SaveSelectFrom(p, c, text) ==
    /\ Free(p)
    /\ now < MaxAdds
    /\ \E ok \in StoreOk :
          IF ok
            THEN LET user_id == c.user_id
                     peers == {q \in Procs \ {p} :
                                  pc[q] = "save_insert" /\ op[q].user_id = user_id}
                     o == [Connected(c) EXCEPT
                              !.text = text,
                              !.new_id = NewId(SelectMax(rows, user_id)),
                              !.created_at = now,
                              !.raced = peers # {}]
                 IN  /\ pc' = [pc EXCEPT ![p] = "save_insert"]
                     /\ op' = [q \in Procs |->
                                 IF q = p THEN o
                                 ELSE IF q \in peers THEN [op[q] EXCEPT !.raced = TRUE]
                                 ELSE op[q]]
                     /\ ret' = ret
                     /\ now' = now + 1
            ELSE /\ \E f \in Failed([c EXCEPT !.text = text]) :
                        Return(p, f, FailureValue("save_task_to_db"))
                 /\ now' = now
    /\ UNCHANGED <<rows, nextId, cache, fresh, boot, schema, last>>

\* save_task_to_db(user_id, text) called on its own.
SaveSelect(p, user_id, text) ==
    /\ SaveSelectFrom(p, Call("save_task_to_db", user_id), text)
    /\ UNCHANGED user_state

\* INSERT ... RETURNING task_id_in_list and conn.commit(); an exception rolls
\* the transaction back and returns None.
SaveInsert(p) ==
    /\ pc[p] = "save_insert"
    /\ Quiet
    /\ \E ok \in StoreOk :
          IF ok
            THEN /\ rows' = InsertRow(rows, nextId, op[p].user_id, op[p].text,
                                      op[p].created_at, op[p].new_id)
                 /\ nextId' = nextId + 1
                 /\ Goto(p, [op[p] EXCEPT !.committed = TRUE, !.created_at = 0],
                         "invalidate")
            ELSE /\ UNCHANGED <<rows, nextId>>
                 /\ Return(p, [op[p] EXCEPT !.err = "store"],
                           FailureValue("save_task_to_db"))
    /\ UNCHANGED <<now, cache, fresh, user_state, boot, schema, last>>

\* ------------------------------------------------------ mark_done_in_db

\* get_db_conn, the UPDATE, the rowcount test and conn.commit().
MarkDone(p, user_id, k) ==
    /\ Free(p)
    /\ LET o == [Call("mark_done_in_db", user_id) EXCEPT !.pos = k]
       IN  \E ok \in StoreOk :
              IF ~ok
                THEN /\ rows' = rows
                     /\ \E f \in Failed(o) :
                            Return(p, f, FailureValue("mark_done_in_db"))
                ELSE IF RowCount(rows, user_id, k) = 0
                       THEN /\ rows' = rows
                            /\ Return(p, Connected(o), PyBool(FALSE))
                       ELSE /\ Unlocked(p, Matching(rows, user_id, k))
                            /\ rows' = UpdateDone(rows, user_id, k)
                            /\ Goto(p, [Connected(o) EXCEPT !.committed = TRUE],
                                    "invalidate")
    /\ UNCHANGED <<nextId, now, cache, fresh, user_state, boot, schema, last>>

\* -------------------------------------------------- delete_task_from_db

\* get_db_conn, the DELETE and the rowcount test.  The DELETE is the first
\* statement of the transaction `with conn:` opens: the rows it removed stay
\* locked, and stay in the committed table, until the transaction ends.
DeleteTask(p, user_id, k) ==
    /\ Free(p)
    /\ LET o == [Call("delete_task_from_db", user_id) EXCEPT !.pos = k]
       IN  \E ok \in StoreOk :
              IF ~ok
                THEN /\ rows' = rows
                     /\ \E f \in Failed(o) :
                            Return(p, f, FailureValue("delete_task_from_db"))
                ELSE IF RowCount(rows, user_id, k) = 0
                       THEN /\ rows' = rows
                            /\ Return(p, Connected(o), PyBool(FALSE))
                       ELSE /\ Unlocked(p, Matching(rows, user_id, k))
                            /\ rows' = InTransaction(rows, DeleteRow(rows, user_id, k))
                            /\ Goto(p, [Connected(o) EXCEPT !.deleted =
                                           {r.id : r \in Matching(rows, user_id, k)}],
                                    "delete_renumber")
    /\ UNCHANGED <<nextId, now, cache, fresh, user_state, boot, schema, last>>

\* The renumbering UPDATE over the owner's rows as they are committed now,
\* less the ones this transaction deleted, and conn.commit().  An exception
\* (a failed statement or commit, a deadlock with another renumbering) rolls
\* the DELETE back and returns False.
DeleteRenumber(p) ==
    /\ pc[p] = "delete_renumber"
    /\ Quiet
    /\ \E ok \in StoreOk :
          IF ok
            THEN /\ Unlocked(p, UserRows(rows, op[p].user_id))
                 /\ rows' = Renumber({r \in rows : r.id \notin op[p].deleted},
                                     op[p].user_id)
                 /\ Goto(p, [op[p] EXCEPT !.committed = TRUE, !.deleted = {}],
                         "invalidate")
            ELSE /\ rows' = rows
                 /\ Return(p, [op[p] EXCEPT !.err = "store"],
                           FailureValue("delete_task_from_db"))
    /\ UNCHANGED <<nextId, now, cache, fresh, user_state, boot, schema, last>>

\* --------------------------------------------------- clear_all_tasks_db

\* get_db_conn and SELECT COUNT(*); zero rows returns (True, 0) at once.
ClearSelect(p, user_id) ==
    /\ Free(p)
    /\ LET o == Call("clear_all_tasks_db", user_id)
           count_before == CountAll(rows, user_id)
       IN  \E ok \in StoreOk :
              IF ~ok
                THEN \E f \in Failed(o) :
                        Return(p, f, FailureValue("clear_all_tasks_db"))
                ELSE IF count_before = 0
                       THEN Return(p, Connected(o), PyPair(TRUE, 0))
                       ELSE Goto(p, [Connected(o) EXCEPT !.count = count_before],
                                 "clear_delete")
    /\ UNCHANGED <<rows, nextId, now, cache, fresh, user_state, boot, schema, last>>

\* DELETE FROM tasks WHERE user_id = %s and conn.commit().
ClearDelete(p) ==
    /\ pc[p] = "clear_delete"
    /\ Quiet
    /\ \E ok \in StoreOk :
          IF ok
            THEN /\ Unlocked(p, UserRows(rows, op[p].user_id))
                 /\ rows' = DeleteAll(rows, op[p].user_id)
                 /\ Goto(p, [op[p] EXCEPT !.committed = TRUE], "invalidate")
            ELSE /\ rows' = rows
                 /\ Return(p, [op[p] EXCEPT !.err = "store"],
                           FailureValue("clear_all_tasks_db"))
    /\ UNCHANGED <<nextId, now, cache, fresh, user_state, boot, schema, last>>

\* ---------------------------------------------------- done_all_tasks_db

\* get_db_conn and SELECT COUNT(*) ... done = FALSE; zero returns (True, 0).
DoneAllSelect(p, user_id) ==
    /\ Free(p)
    /\ LET o == Call("done_all_tasks_db", user_id)
           count_pending == CountPending(rows, user_id)
       IN  \E ok \in StoreOk :
              IF ~ok
                THEN \E f \in Failed(o) :
                        Return(p, f, FailureValue("done_all_tasks_db"))
                ELSE IF count_pending = 0
                       THEN Return(p, Connected(o), PyPair(TRUE, 0))
                       ELSE Goto(p, [Connected(o) EXCEPT !.count = count_pending],
                                 "done_all_update")
    /\ UNCHANGED <<rows, nextId, now, cache, fresh, user_state, boot, schema, last>>

\* UPDATE tasks SET done = TRUE WHERE user_id = %s and conn.commit().
DoneAllUpdate(p) ==
    /\ pc[p] = "done_all_update"
    /\ Quiet
    /\ \E ok \in StoreOk :
          IF ok
            THEN /\ Unlocked(p, UserRows(rows, op[p].user_id))
                 /\ rows' = DoneAll(rows, op[p].user_id)
                 /\ Goto(p, [op[p] EXCEPT !.committed = TRUE], "invalidate")
            ELSE /\ rows' = rows
                 /\ Return(p, [op[p] EXCEPT !.err = "store"],
                           FailureValue("done_all_tasks_db"))
    /\ UNCHANGED <<nextId, now, cache, fresh, user_state, boot, schema, last>>

\* ------------------------------------------- invalidate_cache and return

\* The tail of every mutating function after conn.commit(): the call of
\* invalidate_cache(user_id) that ended as r says while Redis was up or not,
\* then the return of the success value.  An exception leaving
\* invalidate_cache reaches the function's except branch.
InvalidateWith(p, up, r) ==
    /\ pc[p] = "invalidate"
    /\ Quiet
    /\ LET k == cache_key(op[p].user_id)
           o == IF up THEN op[p] ELSE [op[p] EXCEPT !.err = "cache"]
           readers == {q \in Procs \ {p} :
                          pc[q] = "load_set" /\ op[q].user_id = op[p].user_id}
       IN  /\ cache' = IF r.deleted THEN [cache EXCEPT ![k] = CacheNone] ELSE cache
           /\ fresh' = IF r.deleted THEN [fresh EXCEPT ![k] = TRUE] ELSE fresh
           /\ pc' = [pc EXCEPT ![p] = "ret"]
           /\ ret' = [ret EXCEPT ![p] = IF r.raised THEN FailureValue(o.name)
                                                     ELSE SuccessValue(o)]
           /\ op' = [q \in Procs |->
                       IF q = p THEN Finally(o)
                       ELSE IF r.deleted /\ q \in readers
                              THEN [op[q] EXCEPT !.stale = TRUE]
                              ELSE op[q]]
    /\ UNCHANGED <<rows, nextId, now, user_state, boot, schema, last>>

\* db_connect.py: invalidate_cache is the guarded one.
Invalidate(p) == \E up \in BOOLEAN : InvalidateWith(p, up, invalidate_cache(up))

\* bot.py: invalidate_cache(user_id) is redis_client.delete(cache_key(user_id))
\* and nothing else, so an exception of the delete leaves it.
bot_invalidate_cache(up) == [deleted |-> up, raised |-> ~up]

\* bot.py: the tail of save_task_to_db, mark_done_in_db, delete_task_from_db.
BotInvalidate(p) == \E up \in BOOLEAN : InvalidateWith(p, up, bot_invalidate_cache(up))

\* The handler replies to the user and ends; the worker takes the next message.
Reply(p) ==
    /\ pc[p] = "ret"
    /\ pc' = [pc EXCEPT ![p] = "idle"]
    /\ op' = [op EXCEPT ![p] = NoOp]
    /\ ret' = [ret EXCEPT ![p] = NoRet]
    /\ UNCHANGED <<rows, nextId, now, cache, fresh, user_state, boot, schema, last>>

\* The message the handler of bot_functions.py sends for the value r its call
\* of the function `name` returned, or for the exception it raised.
ReplyText(name, r) ==
    CASE r.tag = "raised" -> "error"
      [] name = "get_user_tasks" ->
           IF r.tasks = <<>> THEN "no_tasks" ELSE "tasks"
      [] name = "mark_done_in_db" -> IF r.b THEN "done" ELSE "not_found"
      [] name = "delete_task_from_db" -> IF r.b THEN "deleted" ELSE "not_found"
      [] name = "clear_all_tasks_db" ->
           IF r.b THEN (IF r.n > 0 THEN "cleared" ELSE "nothing_to_clear")
                  ELSE "failed"
      [] name = "done_all_tasks_db" ->
           IF r.b THEN (IF r.n > 0 THEN "all_done" ELSE "nothing_to_do")
                  ELSE "failed"
      [] OTHER -> IF r.tag = "int" /\ r.n # 0 THEN "added" ELSE "failed"

\* The call returned what its handler takes for success.
Succeeded(o, r) ==
    CASE r.tag = "int" -> TRUE
      [] r.tag \in {"bool", "pair"} -> r.b
      [] r.tag = "list" -> o.err = "none"
      [] OTHER -> FALSE

\* Reply(p), the call being recorded as the one that returned last.
ReplyLast(p) ==
    /\ pc[p] = "ret"
    /\ pc' = [pc EXCEPT ![p] = "idle"]
    /\ op' = [op EXCEPT ![p] = NoOp]
    /\ ret' = [ret EXCEPT ![p] = NoRet]
    /\ last' = [name |-> op[p].name, user_id |-> op[p].user_id,
                pos |-> op[p].pos, ok |-> Succeeded(op[p], ret[p])]
    /\ UNCHANGED <<rows, nextId, now, cache, fresh, user_state, boot, schema>>

\* ------------------------------------------------ add_task, the add dialog

\* add_task of bot_functions.py on a text message, in the branches that call
\* no store function: in stage waiting_surname the text is kept as the
\* surname and the stage becomes waiting_task; without a dialog a non-empty
\* text opens one in stage waiting_surname and an empty text is answered by
\* the validation message.
AddTask(p, user_id, text) ==
    /\ Free(p)
    /\ user_state[user_id].stage # "waiting_task"
    /\ user_state' =
          IF user_state[user_id].stage = "waiting_surname"
            THEN [user_state EXCEPT ![user_id] =
                    [@ EXCEPT !.surname = text, !.stage = "waiting_task"]]
            ELSE IF text # ""
                   THEN [user_state EXCEPT ![user_id] =
                           [stage |-> "waiting_surname", surname |-> "",
                            task_text |-> text]]
                   ELSE user_state
    /\ UNCHANGED <<rows, nextId, now, cache, pc, op, ret, fresh, boot, schema, last>>

\* A waiting_task branch that leaves data['task_text'] as the dialog's first
\* message set it.
KeepTaskText(data, text) == data

\* data['task_text'] = text
SetTaskText(data, text) == [data EXCEPT !.task_text = text]

\* add_task in stage waiting_task: data['task_text'] = text and
\* save_task_to_db(user_id, data['task_text']).
AddTaskSave(p, user_id, text) ==
    /\ user_state[user_id].stage = "waiting_task"
    /\ LET data == SetTaskText(user_state[user_id], text)
       IN  /\ user_state' = [user_state EXCEPT ![user_id] = data]
           /\ SaveSelectFrom(p, [Call("save_task_to_db", user_id) EXCEPT
                                    !.message = text],
                             data.task_text)

\* add_task after save_task_to_db returned: the reply, and
\* user_state.pop(user_id, None).
AddTaskReply(p) ==
    /\ pc[p] = "ret"
    /\ op[p].name = "save_task_to_db"
    /\ pc' = [pc EXCEPT ![p] = "idle"]
    /\ op' = [op EXCEPT ![p] = NoOp]
    /\ ret' = [ret EXCEPT ![p] = NoRet]
    /\ user_state' = [user_state EXCEPT ![op[p].user_id] = Absent]
    /\ last' = [name |-> op[p].name, user_id |-> op[p].user_id,
                pos |-> op[p].pos, ok |-> Succeeded(op[p], ret[p])]
    /\ UNCHANGED <<rows, nextId, now, cache, fresh, boot, schema>>

\* list_tasks replies with the list get_user_tasks returned.
ListReply(p) ==
    /\ op[p].name = "get_user_tasks"
    /\ Reply(p)

\* ---------------------------------------------------------------- __main__

\* __main__: init_db(), then bot.polling().  init_db returns when get_db_conn
\* gave no connection and catches the exception of CREATE TABLE or of the
\* commit, so polling begins whether or not the table exists.
init_db ==
    /\ boot = "main"
    /\ \E conn \in BOOLEAN, created \in BOOLEAN :
          schema' = (schema \/ (conn /\ created))
    /\ boot' = "polling"
    /\ UNCHANGED <<rows, nextId, now, cache, pc, op, ret, fresh, user_state, last>>

\* ------------------------------------------------------------ environment

\* A stored value is damaged so that json.loads rejects it.
Corrupt(user_id) ==
    /\ Quiet
    /\ cache[cache_key(user_id)].kind = "json"
    /\ cache' = [cache EXCEPT ![cache_key(user_id)] = CacheCorrupt]
    /\ UNCHANGED <<rows, nextId, now, pc, op, ret, fresh, user_state, boot, schema, last>>

\* A step of a call of db_connect.py made by a worker of P for a chat user
\* of U, or of the environment.
Calls(P, U) ==
    \/ \E p \in P, u \in U : GetUserTasks(p, u)
    \/ \E p \in P : LoadSet(p)
    \/ \E p \in P, u \in U, t \in Texts : SaveSelect(p, u, t)
    \/ \E p \in P : SaveInsert(p)
    \/ \E p \in P, u \in U, k \in Positions : MarkDone(p, u, k)
    \/ \E p \in P, u \in U, k \in Positions : DeleteTask(p, u, k)
    \/ \E p \in P : DeleteRenumber(p)
    \/ \E p \in P, u \in U : ClearSelect(p, u)
    \/ \E p \in P : ClearDelete(p)
    \/ \E p \in P, u \in U : DoneAllSelect(p, u)
    \/ \E p \in P : DoneAllUpdate(p)
    \/ \E p \in P : Invalidate(p)
    \/ \E u \in U : Corrupt(u)

\* One step of the bot with the workers P serving the chat users U.
Step(P, U) ==
    \/ Calls(P, U)
    \/ \E p \in P : Reply(p)

\* Two workers race on the list of one chat user; the table starts empty.
Next == Step(Procs, {1})

Spec == Init /\ [][Next]_vars

\* One worker serves two chat users, one message at a time.
NextOwners == Step({"p1"}, Users)

SpecOwners == Init /\ [][NextOwners]_vars

\* One worker serves one chat user, one message at a time, and the call that
\* returned last is recorded.
NextSerial ==
    \/ Calls({"p1"}, {1})
    \/ ReplyLast("p1")

SpecSerial == Init /\ [][NextSerial]_vars

\* The process starts on a store that has no table tasks yet; one worker
\* then serves one chat user.
InitStartup ==
    /\ rows = {}
    /\ nextId = 1
    /\ now = 0
    /\ cache = [k \in Keys |-> CacheNone]
    /\ pc = [p \in Procs |-> "idle"]
    /\ op = [p \in Procs |-> NoOp]
    /\ ret = [p \in Procs |-> NoRet]
    /\ fresh = [k \in Keys |-> TRUE]
    /\ user_state = [u \in Users |-> Absent]
    /\ boot = "main"
    /\ schema = FALSE
    /\ last = NoLast

NextStartup ==
    \/ init_db
    \/ Step({"p1"}, {1})

SpecStartup == InitStartup /\ [][NextStartup]_vars

\* One worker serves the text messages and the /list commands of the chat
\* users through the handlers of bot_functions.py.
NextDialog ==
    \/ \E u \in Users, t \in Inbound : AddTask("p1", u, t)
    \/ \E u \in Users, t \in Inbound : AddTaskSave("p1", u, t)
    \/ SaveInsert("p1")
    \/ Invalidate("p1")
    \/ AddTaskReply("p1")
    \/ \E u \in Users : GetUserTasks("p1", u)
    \/ LoadSet("p1")
    \/ ListReply("p1")

SpecDialog == Init /\ [][NextDialog]_vars

\* The bot starts on a table that CREATE TABLE IF NOT EXISTS found and kept,
\* holding one task of the user, stored before the process began.
InitRestart ==
    /\ rows = {[id |-> 0, user_id |-> 1, text |-> "a", done |-> FALSE,
                created_at |-> -1, task_id_in_list |-> 1]}
    /\ nextId = 1
    /\ now = 0
    /\ cache = [k \in Keys |-> CacheNone]
    /\ pc = [p \in Procs |-> "idle"]
    /\ op = [p \in Procs |-> NoOp]
    /\ ret = [p \in Procs |-> NoRet]
    /\ fresh = [k \in Keys |-> TRUE]
    /\ user_state = [u \in Users |-> Absent]
    /\ boot = "polling"
    /\ schema = TRUE
    /\ last = NoLast

SpecRestart == InitRestart /\ [][Next]_vars

\* The bot starts on a table holding two tasks of the user, and the user
\* sends only tasks to add and /delete commands.
InitBacklog ==
    /\ rows = {[id |-> -1, user_id |-> 1, text |-> "a", done |-> FALSE,
                created_at |-> -2, task_id_in_list |-> 1],
               [id |-> 0, user_id |-> 1, text |-> "a", done |-> FALSE,
                created_at |-> -1, task_id_in_list |-> 2]}
    /\ nextId = 1
    /\ now = 0
    /\ cache = [k \in Keys |-> CacheNone]
    /\ pc = [p \in Procs |-> "idle"]
    /\ op = [p \in Procs |-> NoOp]
    /\ ret = [p \in Procs |-> NoRet]
    /\ fresh = [k \in Keys |-> TRUE]
    /\ user_state = [u \in Users |-> Absent]
    /\ boot = "polling"
    /\ schema = TRUE
    /\ last = NoLast

NextBacklog ==
    \/ \E p \in Procs, t \in Texts : SaveSelect(p, 1, t)
    \/ \E p \in Procs : SaveInsert(p)
    \/ \E p \in Procs, k \in Positions : DeleteTask(p, 1, k)
    \/ \E p \in Procs : DeleteRenumber(p)
    \/ \E p \in Procs : Invalidate(p)
    \/ \E p \in Procs : Reply(p)

SpecBacklog == InitBacklog /\ [][NextBacklog]_vars

\* The store functions of bot.py: statement for statement those of
\* db_connect.py, except that they end in bot.py's own invalidate_cache.
NextBot ==
    \/ \E p \in Procs, t \in Texts : SaveSelect(p, 1, t)
    \/ \E p \in Procs : SaveInsert(p)
    \/ \E p \in Procs, k \in Positions : MarkDone(p, 1, k)
    \/ \E p \in Procs, k \in Positions : DeleteTask(p, 1, k)
    \/ \E p \in Procs : DeleteRenumber(p)
    \/ \E p \in Procs : BotInvalidate(p)
    \/ \E p \in Procs : Reply(p)

SpecBot == Init /\ [][NextBot]_vars

\* ================================================================ claims

\* The worker p takes a step of its call.
Steps(p) == pc'[p] # pc[p]

\* The worker p enters the function `name`.
Enters(p, name) == pc[p] = "idle" /\ pc'[p] # "idle" /\ op'[p].name = name

PositionsOf(user_id) == {r.task_id_in_list : r \in UserRows(rows, user_id)}

\* C1: dense numbering.  For every owner the task_id_in_list values of the
\* owner's committed rows are exactly 1..N, N the number of the owner's rows:
\* no gap and no duplicate.
C1_DenseNumbering ==
    \A u \in Users : PositionsOf(u) = 1..Cardinality(UserRows(rows, u))

\* C2: two save_task_to_db calls for the same owner whose SELECT MAX .. INSERT
\* windows overlapped, both committed, hold different positions (the value
\* each inserted and returns).
C2_ConcurrentAddsDistinct ==
    \A p, q \in Procs :
        ( /\ p # q
          /\ op[p].name = "save_task_to_db" /\ op[q].name = "save_task_to_db"
          /\ op[p].user_id = op[q].user_id
          /\ op[p].raced /\ op[q].raced
          /\ op[p].committed /\ op[q].committed )
        => op[p].new_id # op[q].new_id

\* C3: cache coherence.  When every mutation whose commit is in the store has
\* returned, a get_user_tasks that returns a cached list returns the owner's
\* rows as they are in the store.
C3_CacheCoherence ==
    [][\A p \in Procs :
          ( /\ Enters(p, "get_user_tasks")
            /\ pc'[p] = "ret"
            /\ ret'[p].tag = "list"
            /\ op'[p].err = "none"
            /\ \A q \in Procs : ~(pc[q] = "invalidate"
                                   /\ op[q].user_id = op'[p].user_id) )
          => ret'[p].tasks \in SelectOrdered(rows, op'[p].user_id)]_vars

\* C4: an owner's cache entry, when it holds a list, holds rows that were
\* read from the store no earlier than the last delete of that entry.
C4_CacheSnapshotFresh ==
    \A u \in Users : cache[cache_key(u)].kind = "json" => fresh[cache_key(u)]

\* C5: order preservation.  Of two tasks of one owner, the one with the
\* smaller task_id_in_list has the strictly earlier created_at.
C5_OrderPreserved ==
    \A r, s \in rows :
        (r.user_id = s.user_id /\ r.task_id_in_list < s.task_id_in_list)
        => r.created_at < s.created_at

\* C6: isolation across owners.  A step of an operation called for owner a
\* leaves the rows and the cache entry of every other owner as they were.
C6_Isolation ==
    [][\A p \in Procs :
          Steps(p) =>
            LET a == IF pc[p] = "idle" THEN op'[p].user_id ELSE op[p].user_id
            IN  \A b \in Users \ {a} :
                   /\ UserRows(rows', b) = UserRows(rows, b)
                   /\ cache'[cache_key(b)] = cache[cache_key(b)]]_vars

\* C6 witness: a delete for owner 1 has committed and returned while owner 2
\* has a row and a cached list.
C6_Witness ==
    \E p \in Procs :
        /\ pc[p] = "ret"
        /\ op[p].name = "delete_task_from_db" /\ op[p].user_id = 1
        /\ op[p].committed
        /\ UserRows(rows, 2) # {}
        /\ cache[cache_key(2)].kind = "json"
        /\ cache[cache_key(2)].tasks # <<>>

\* C7: a get_user_tasks whose cache calls failed returns, without raising,
\* the owner's rows from the store in position order.
C7_ListSurvivesCacheOutage ==
    \A p \in Procs :
        (pc[p] = "ret" /\ op[p].name = "get_user_tasks" /\ op[p].err = "cache")
        => /\ ret[p].tag = "list"
           /\ ret[p].tasks \in SelectOrdered(rows, op[p].user_id)

\* C8: a mutating function of db_connect.py whose cache call failed has
\* committed its change and returns its success value: the new position,
\* True, or (True, count).
C8_MutatorsSurviveCacheOutage ==
    \A p \in Procs :
        (pc[p] = "ret" /\ op[p].name \in Mutators /\ op[p].err = "cache")
        => /\ op[p].committed
           /\ CASE op[p].name = "save_task_to_db" ->
                     ret[p].tag = "int" /\ ret[p].n = op[p].new_id /\ ret[p].n >= 1
                [] op[p].name \in {"mark_done_in_db", "delete_task_from_db"} ->
                     ret[p].tag = "bool" /\ ret[p].b
                [] OTHER ->
                     ret[p].tag = "pair" /\ ret[p].b /\ ret[p].n = op[p].count
                     /\ ret[p].n >= 1

\* C8 witness: save_task_to_db has inserted, its cache delete failed, and it
\* returned the new position.
C8_Witness ==
    \E p \in Procs :
        /\ pc[p] = "ret"
        /\ op[p].name = "save_task_to_db"
        /\ op[p].err = "cache"
        /\ ret[p].tag = "int"
        /\ \E r \in rows : r.task_id_in_list = ret[p].n

\* C9: mark_done_in_db or delete_task_from_db called with a position that no
\* task of the owner has returns False and leaves every row and the cache
\* as they were.
C9_NotFoundNoEffect ==
    [][\A p \in Procs :
          ( /\ \/ Enters(p, "mark_done_in_db")
               \/ Enters(p, "delete_task_from_db")
            /\ Matching(rows, op'[p].user_id, op'[p].pos) = {} )
          => /\ pc'[p] = "ret"
             /\ ret'[p] = PyBool(FALSE)
             /\ rows' = rows
             /\ cache' = cache]_vars

\* C9 witness: a delete of a position the owner does not have has returned
\* False without a store failure, the owner having another task and a
\* cached list.
C9_Witness ==
    \E p \in Procs :
        /\ pc[p] = "ret"
        /\ op[p].name = "delete_task_from_db"
        /\ op[p].err = "none"
        /\ ret[p] = PyBool(FALSE)
        /\ Matching(rows, op[p].user_id, op[p].pos) = {}
        /\ UserRows(rows, op[p].user_id) # {}
        /\ cache[cache_key(op[p].user_id)].kind = "json"

\* C10: the INSERT of save_task_to_db on an owner with N tasks stores and
\* returns position N + 1, and the new task is then the owner's only task
\* at the highest position, with done = FALSE.
C10_AddReturnsNPlusOne ==
    [][\A p \in Procs :
          (pc[p] = "save_insert" /\ pc'[p] = "invalidate")
          => LET u == op[p].user_id
                 n == CountAll(rows, u)
             IN  /\ op'[p].new_id = n + 1
                 /\ \A tasks \in SelectOrdered(rows', u) :
                       /\ tasks[n + 1].task_id_in_list = n + 1
                       /\ ~tasks[n + 1].done
                       /\ tasks[n + 1] \notin {tasks[i] : i \in 1..n}
                       /\ \A i \in 1..n : tasks[i].task_id_in_list < n + 1]_vars

\* C11: delete_task_from_db(user_id, k) on an owner whose tasks are at the
\* positions 1..N commits exactly this change: the task at position k is
\* gone, every other task of the owner is kept with its id, text, done and
\* created_at, a task that was at j < k is at j and one that was at j > k is
\* at j - 1; and the call then returns True.
C11_DeleteShiftsSurvivors ==
    [][\A p \in Procs :
          /\ ( /\ pc[p] = "delete_renumber" /\ pc'[p] = "invalidate"
               /\ PositionsOf(op[p].user_id)
                     = 1..Cardinality(UserRows(rows, op[p].user_id)) )
             => UserRows(rows', op[p].user_id)
                  = {[r EXCEPT !.task_id_in_list =
                         IF r.task_id_in_list < op[p].pos
                           THEN r.task_id_in_list ELSE r.task_id_in_list - 1] :
                       r \in {x \in UserRows(rows, op[p].user_id) :
                                x.task_id_in_list # op[p].pos}}
          /\ ( /\ pc[p] = "invalidate" /\ pc'[p] = "ret"
               /\ op[p].name = "delete_task_from_db" )
             => ret'[p] = PyBool(TRUE)]_vars

\* C12: the DELETE and the renumbering of delete_task_from_db are one atomic
\* unit.  The DELETE alone changes no committed row; while the transaction is
\* open the row it deleted is still in the table the other operations read;
\* when the renumbering or the commit fails the call returns False with the
\* table as it was; and the commit publishes the delete together with the
\* renumbering of the owner's rows by created_at.
C12_DeleteAtomic ==
    [][\A p \in Procs :
          /\ Enters(p, "delete_task_from_db") => rows' = rows
          /\ pc[p] = "delete_renumber"
                => op[p].deleted \subseteq {r.id : r \in rows}
          /\ (pc[p] = "delete_renumber" /\ pc'[p] = "ret")
                => /\ rows' = rows
                   /\ ret'[p] = PyBool(FALSE)
          /\ (pc[p] = "delete_renumber" /\ pc'[p] = "invalidate")
                => /\ {r.id : r \in rows'} = {r.id : r \in rows} \ op[p].deleted
                   /\ \A r \in UserRows(rows', op[p].user_id) :
                         r.task_id_in_list = RowNumber(rows', op[p].user_id, r)]_vars

\* C12 witness: a delete_task_from_db whose DELETE removed a row failed in the
\* renumbering or the commit and returned False; the row is in the table,
\* and so is another task of the owner.
C12_Witness ==
    \E p \in Procs :
        /\ pc[p] = "ret"
        /\ op[p].name = "delete_task_from_db"
        /\ op[p].err = "store"
        /\ op[p].deleted # {}
        /\ op[p].deleted \subseteq {r.id : r \in rows}
        /\ Cardinality(UserRows(rows, op[p].user_id)) >= 2

\* C13: clear_all_tasks_db on an owner with N tasks deletes them and returns
\* (True, N), (True, 0) at once when N = 0; and the get_user_tasks that comes
\* next for the owner returns the empty list.
C13_ClearAll ==
    [][\A p \in Procs :
          /\ (Enters(p, "clear_all_tasks_db") /\ op'[p].err = "none")
                => LET N == Cardinality({r \in rows : r.user_id = op'[p].user_id})
                   IN  IF N = 0
                         THEN pc'[p] = "ret" /\ ret'[p] = PyPair(TRUE, 0)
                         ELSE pc'[p] = "clear_delete" /\ op'[p].count = N
          /\ (pc[p] = "clear_delete" /\ pc'[p] = "invalidate")
                => {r \in rows' : r.user_id = op[p].user_id} = {}
          /\ ( /\ pc[p] = "invalidate" /\ pc'[p] = "ret"
               /\ op[p].name = "clear_all_tasks_db" )
                => ret'[p] = PyPair(TRUE, op[p].count)
          /\ ( /\ last.name = "clear_all_tasks_db" /\ last.ok
               /\ pc'[p] = "ret" /\ pc[p] # "ret"
               /\ op'[p].name = "get_user_tasks"
               /\ op'[p].user_id = last.user_id
               /\ op'[p].err = "none" )
                => ret'[p] = PyList(<<>>)]_vars

\* C14: done_all_tasks_db returns (True, P), P the number of the owner's
\* tasks that were not done when it was called, (True, 0) at once when
\* P = 0; and its UPDATE leaves every task of the owner with done = TRUE and
\* changes nothing else.
C14_DoneAll ==
    [][\A p \in Procs :
          /\ (Enters(p, "done_all_tasks_db") /\ op'[p].err = "none")
                => LET P == Cardinality({r \in rows : /\ r.user_id = op'[p].user_id
                                                      /\ ~r.done})
                   IN  IF P = 0
                         THEN /\ pc'[p] = "ret" /\ ret'[p] = PyPair(TRUE, 0)
                              /\ rows' = rows
                         ELSE pc'[p] = "done_all_update" /\ op'[p].count = P
          /\ (pc[p] = "done_all_update" /\ pc'[p] = "invalidate")
                => /\ \A r \in rows' : r.user_id = op[p].user_id => r.done
                   /\ {[r EXCEPT !.done = FALSE] : r \in rows'}
                        = {[r EXCEPT !.done = FALSE] : r \in rows}
                   /\ \A r \in rows : r.user_id # op[p].user_id => r \in rows'
          /\ ( /\ pc[p] = "invalidate" /\ pc'[p] = "ret"
               /\ op[p].name = "done_all_tasks_db" )
                => ret'[p] = PyPair(TRUE, op[p].count)]_vars

\* C14 witness: done_all_tasks_db has returned (True, 1) on an owner with two
\* tasks, one of them done before the call; both are done now.
C14_Witness ==
    \E p \in Procs :
        /\ pc[p] = "ret"
        /\ op[p].name = "done_all_tasks_db"
        /\ ret[p] = PyPair(TRUE, 1)
        /\ Cardinality(UserRows(rows, op[p].user_id)) = 2
        /\ \A r \in UserRows(rows, op[p].user_id) : r.done

\* C15: retrying is safe for every operation but add.  When the call that
\* returned last succeeded and the next call is the same function of
\* get_user_tasks, mark_done_in_db, delete_task_from_db, clear_all_tasks_db
\* and done_all_tasks_db with the same owner and position, no step of this
\* second call changes the table.
C15_RetryIdempotent ==
    [][\A p \in Procs :
          LET o == IF pc[p] = "idle" THEN op'[p] ELSE op[p]
          IN  ( /\ Steps(p)
                /\ o.name \in {"get_user_tasks", "mark_done_in_db",
                                "delete_task_from_db", "clear_all_tasks_db",
                                "done_all_tasks_db"}
                /\ last.ok
                /\ last.name = o.name
                /\ last.user_id = o.user_id
                /\ last.pos = o.pos )
              => rows' = rows]_vars

\* C16: store failures never propagate.  A call in which get_db_conn, a
\* statement or the commit failed has raised nothing and returned its
\* failure value: None from save_task_to_db, [] from load_tasks_from_db
\* (under get_user_tasks), False from mark_done_in_db and
\* delete_task_from_db, (False, 0) from clear_all_tasks_db and
\* done_all_tasks_db.
C16_StoreFailureContained ==
    \A p \in Procs :
        (pc[p] = "ret" /\ op[p].err = "store")
        => /\ ret[p].tag # "raised"
           /\ CASE op[p].name = "save_task_to_db" -> ret[p] = PyNone
                [] op[p].name = "get_user_tasks" -> ret[p] = PyList(<<>>)
                [] op[p].name \in {"mark_done_in_db", "delete_task_from_db"} ->
                     ret[p] = PyBool(FALSE)
                [] op[p].name \in {"clear_all_tasks_db", "done_all_tasks_db"} ->
                     ret[p] = PyPair(FALSE, 0)
                [] OTHER -> FALSE

\* C16 witness: clear_all_tasks_db counted a task, its DELETE or commit
\* failed, and it returned (False, 0) with the task still stored.
C16_Witness ==
    \E p \in Procs :
        /\ pc[p] = "ret"
        /\ op[p].name = "clear_all_tasks_db"
        /\ op[p].err = "store"
        /\ op[p].count >= 1
        /\ ret[p] = PyPair(FALSE, 0)
        /\ UserRows(rows, op[p].user_id) # {}

\* C17: a recovered store failure is told apart from an empty result.  When
\* the store call of /done, /delete or /list failed, the message sent to the
\* user is not the one sent when the position does not exist ("not_found")
\* or when the owner has no tasks ("no_tasks").
C17_FailureDistinct ==
    \A p \in Procs :
        ( /\ pc[p] = "ret"
          /\ op[p].err = "store"
          /\ op[p].name \in {"mark_done_in_db", "delete_task_from_db",
                              "get_user_tasks"} )
        => ReplyText(op[p].name, ret[p]) \notin {"not_found", "no_tasks"}

\* C18: empty text never reaches the store.  No call of save_task_to_db is
\* made with an empty text and no stored task has an empty text.
C18_NoEmptyText ==
    /\ \A p \in Procs : op[p].name = "save_task_to_db" => op[p].text # ""
    /\ \A r \in rows : r.text # ""

\* C19: a failure of init_db is fatal.  The process polls only when table
\* tasks exists, and no handler call runs against a store without it.
C19_InitFailureHalts ==
    /\ boot = "polling" => schema
    /\ \A p \in Procs : pc[p] # "idle" => schema

\* C20: a corrupted cache entry is a miss.  When get_user_tasks finds an
\* entry that json.loads rejects, and the store and Redis answer, it raises
\* nothing: it reads the owner's rows from the store, writes them over the
\* entry and returns them.
C20_CorruptEntryIsMiss ==
    [][\A p \in Procs :
          /\ ( /\ Enters(p, "get_user_tasks")
               /\ cache[cache_key(op'[p].user_id)] = CacheCorrupt
               /\ op'[p].err = "none" )
                => /\ pc'[p] = "load_set"
                   /\ op'[p].tasks \in SelectOrdered(rows, op'[p].user_id)
          /\ ( /\ pc[p] = "load_set" /\ pc'[p] = "ret"
               /\ cache[cache_key(op[p].user_id)] = CacheCorrupt
               /\ op'[p].err = "none" )
                => /\ ret'[p] = PyList(op[p].tasks)
                   /\ cache'[cache_key(op[p].user_id)] = json_dumps(op[p].tasks)]_vars

\* C20 witness: a get_user_tasks that found an undecodable entry has written
\* the owner's task over it and returned it.
C20_Witness ==
    \E p \in Procs :
        /\ pc[p] = "ret"
        /\ op[p].name = "get_user_tasks"
        /\ op[p].undecodable
        /\ op[p].err = "none"
        /\ ret[p].tag = "list"
        /\ ret[p].tasks # <<>>
        /\ ret[p].tasks \in SelectOrdered(rows, op[p].user_id)
        /\ cache[cache_key(op[p].user_id)] = json_dumps(ret[p].tasks)

\* C21: the done flag only ever goes from false to true. A row that a step
\* adds to the table has done = FALSE; a row that a step keeps (same id) and
\* that was done stays done; and the commit of mark_done_in_db or of
\* done_all_tasks_db changes no field of any row other than done.
SameButDone(rs) == {[r EXCEPT !.done = FALSE] : r \in rs}

C21_DoneMonotonic ==
    [][/\ \A s \in rows' :
            IF \E r \in rows : r.id = s.id
                THEN \A r \in rows : r.id = s.id /\ r.done => s.done
                ELSE ~s.done
       /\ \A p \in Procs :
            /\ op[p].name \in {"mark_done_in_db", "done_all_tasks_db"}
                \/ op'[p].name \in {"mark_done_in_db", "done_all_tasks_db"}
            /\ Steps(p)
            => SameButDone(rows') = SameButDone(rows)]_vars

\* A completion was committed while the user holds a done task and a younger
\* task that is still pending.
C21_Witness ==
    \E p \in Procs :
        /\ pc[p] = "ret"
        /\ op[p].name = "mark_done_in_db"
        /\ op[p].committed
        /\ \E r, s \in UserRows(rows, op[p].user_id) :
            r.done /\ ~s.done /\ r.id < s.id

\* C22: the store connection is scoped to one operation. A worker whose
\* function has returned (by success, by the not-found or the zero-count early
\* return, or from its except branch) or that runs no function holds no open
\* connection; so when no operation is in flight, no connection is open.
OpenConnections == Cardinality({p \in Procs : op[p].conn})

C22_ConnectionScoped ==
    /\ \A p \in Procs : pc[p] \in {"idle", "ret"} => ~op[p].conn
    /\ (\A p \in Procs : pc[p] \in {"idle", "ret"}) => OpenConnections = 0

\* clear_all_tasks_db left by its zero-count early return while the other
\* worker is inside a function on a connection of its own.
C22_Witness ==
    \E p, q \in Procs :
        /\ pc[p] = "ret"
        /\ op[p].name = "clear_all_tasks_db"
        /\ op[p].err = "none"
        /\ ~op[p].committed
        /\ ~op[p].conn
        /\ op[q].conn

\* C23: a failed store read never populates the cache. A get_user_tasks whose
\* load_tasks_from_db could not connect or query returns [] and leaves the
\* cache as it was; only a read that succeeded goes on to redis_client.set,
\* with the list it read; and a step that makes an entry hold the empty list
\* is the set of a call whose read succeeded and found no rows.
EmptyList == [kind |-> "json", tasks |-> <<>>]

C23_FailedReadNotCached ==
    [][/\ \A p \in Procs :
            Enters(p, "get_user_tasks") =>
                /\ cache' = cache
                /\ op'[p].err = "store" => pc'[p] = "ret" /\ ret'[p] = PyList(<<>>)
                /\ pc'[p] = "load_set" =>
                      /\ op'[p].err = "none"
                      /\ op'[p].tasks \in SelectOrdered(rows, op'[p].user_id)
       /\ \A k \in Keys :
            cache'[k] # cache[k] /\ cache'[k] = EmptyList =>
                \E p \in Procs :
                    /\ pc[p] = "load_set" /\ pc'[p] = "ret"
                    /\ cache_key(op[p].user_id) = k
                    /\ op[p].err = "none"
                    /\ op[p].tasks = <<>>]_vars

\* A read failed in the store although the owner has tasks, and the owner's
\* cache entry is still missing.
C23_Witness ==
    \E p \in Procs :
        /\ pc[p] = "ret"
        /\ op[p].name = "get_user_tasks"
        /\ op[p].err = "store"
        /\ ret[p] = PyList(<<>>)
        /\ UserRows(rows, op[p].user_id) # {}
        /\ cache[cache_key(op[p].user_id)] = CacheNone

\* C24: a failure result means nothing changed. A save_task_to_db that
\* returns None, and a mark_done_in_db or delete_task_from_db that returns
\* False, committed no transaction, also when Redis failed during the
\* invalidation; and the rows only change in the step in which a call commits.
C24_FailureChangesNothing ==
    [][/\ \A p \in Procs :
            /\ pc'[p] = "ret"
            /\ op'[p].name \in
                  {"save_task_to_db", "mark_done_in_db", "delete_task_from_db"}
            /\ ret'[p] = FailureValue(op'[p].name)
            => ~op'[p].committed
       /\ rows' # rows =>
            \E p \in Procs : op'[p].committed /\ ~op[p].committed]_vars

\* C25: the add dialog is a per-user state machine absent -> waiting_surname
\* -> waiting_task -> absent. A user's stage only moves along these arrows,
\* and a /list command in any of its steps moves nothing; save_task_to_db is
\* only entered for a user in stage waiting_task, with the text of the message
\* being handled; every row that appears holds the text of that message; and
\* when the handler ends after save_task_to_db the user's state is absent,
\* whatever the function returned.
DialogArrows ==
    {<<"none", "waiting_surname">>, <<"waiting_surname", "waiting_task">>,
     <<"waiting_task", "none">>}

====
